---- MODULE Spec2Model ----
(***************************************************************************)
(* Model of the sports-store Flask application (src/app.py): the products  *)
(* and users tables, one client session (admin flag, CSRF token, cart),    *)
(* and one action per request handler.                                     *)
(*                                                                         *)
(* Text values (form fields, URL segments, stored columns) are sequences   *)
(* of one-character strings, so that strip(), lower(), endswith() and      *)
(* float() are computed character by character.                            *)
(***************************************************************************)
EXTENDS Integers, Sequences, FiniteSets, TLC

(***************************************************************************)
(* products, nextProductId   the products table and its AUTOINCREMENT id   *)
(* users, nextUserId         the users table and its AUTOINCREMENT id      *)
(* session                   the client session: admin_logged_in,          *)
(*                           _csrf_token and cart                          *)
(* response                  the answer to the request handled last: its   *)
(*                           route (op), redirect / rendered template /    *)
(*                           exception, the message passed to flash() and, *)
(*                           for the cart page, the total                  *)
(* posted_token              the csrf_token field of that request          *)
(* adds, fromEmpty           history: add_to_cart requests per name since  *)
(*                           the name's last remove_from_cart, counted in  *)
(*                           carts that started out missing                *)
(* loginSinceLogout          history: a login succeeded, no logout since   *)
(* reqs                      the register requests in flight when requests *)
(*                           are served concurrently                       *)
(***************************************************************************)
VARIABLES products, nextProductId, users, nextUserId, session, response,
          posted_token, adds, fromEmpty, loginSinceLogout, reqs

vars == <<products, nextProductId, users, nextUserId, session, response,
          posted_token, adds, fromEmpty, loginSinceLogout, reqs>>

(***************************************************************************)
(* Bounds of the model.                                                    *)
(***************************************************************************)
\* number of INSERTs into products (AUTOINCREMENT ids 1..MaxProductId)
MaxProductId == 2
\* largest quantity a cart entry is driven to
MaxQty == 2
\* number of INSERTs into users
MaxUserId == 2

\* Python's None, and a request without the form field
NONE == "None"

(***************************************************************************)
(* Text literals used as inputs.                                           *)
(***************************************************************************)
EMPTY == <<>>
S_Bat == <<"B", "a", "t">>
S_Mat == <<"M", "a", "t">>
S_Ball == <<"B", "a", "l", "l">>
S_Blank == <<" ">>
S_Outdoor == <<"O", "u", "t">>
S_Fitness == <<"F", "i", "t">>
S_499 == <<"4", "9", "9">>
S_10 == <<"1", "0">>
S_0 == <<"0">>
S_neg5 == <<"-", "5">>
S_abc == <<"a", "b", "c">>
S_bat_jpeg == <<"b", ".", "j", "p", "e", "g">>
S_m_PNG == <<"m", ".", "P", "N", "G">>
S_b_png == <<"b", ".", "p", "n", "g">>
S_b_gif == <<"b", ".", "g", "i", "f">>
S_a == <<"a">>
S_a_padded == <<" ", "a">>
S_b == <<"b">>
S_p == <<"p">>
S_p_padded == <<"p", " ">>
S_q == <<"q">>

(***************************************************************************)
(* str methods.                                                            *)
(***************************************************************************)
UpperChars == <<"A", "B", "C", "D", "E", "F", "G", "H", "I", "J", "K", "L", "M",
                "N", "O", "P", "Q", "R", "S", "T", "U", "V", "W", "X", "Y", "Z">>
LowerChars == <<"a", "b", "c", "d", "e", "f", "g", "h", "i", "j", "k", "l", "m",
                "n", "o", "p", "q", "r", "s", "t", "u", "v", "w", "x", "y", "z">>
DigitChars == <<"0", "1", "2", "3", "4", "5", "6", "7", "8", "9">>
Whitespace == {" ", "\t", "\n", "\r"}

\* str.lower() on one character
LowerChar(c) ==
    IF \E i \in 1..Len(UpperChars) : UpperChars[i] = c
    THEN LowerChars[CHOOSE i \in 1..Len(UpperChars) : UpperChars[i] = c]
    ELSE c

\* str.lower()
Lower(s) == [i \in 1..Len(s) |-> LowerChar(s[i])]

RECURSIVE LStrip(_)
LStrip(s) ==
    IF s = <<>> THEN s
    ELSE IF Head(s) \in Whitespace THEN LStrip(Tail(s)) ELSE s

RECURSIVE RStrip(_)
RStrip(s) ==
    IF s = <<>> THEN s
    ELSE IF s[Len(s)] \in Whitespace THEN RStrip(SubSeq(s, 1, Len(s) - 1)) ELSE s

\* str.strip()
Strip(s) == RStrip(LStrip(s))

\* str.endswith(suffix)
EndsWith(s, suffix) ==
    /\ Len(suffix) <= Len(s)
    /\ SubSeq(s, Len(s) - Len(suffix) + 1, Len(s)) = suffix

\* the tuple of suffixes accepted for an image file name
ImageExtensions ==
    { <<".", "p", "n", "g">>, <<".", "j", "p", "g">>,
      <<".", "j", "p", "e", "g">>, <<".", "w", "e", "b", "p">> }

IsDigit(c) == \E i \in 1..Len(DigitChars) : DigitChars[i] = c
DigitValue(c) == (CHOOSE i \in 1..Len(DigitChars) : DigitChars[i] = c) - 1

RECURSIVE DigitsValue(_)
DigitsValue(s) ==
    IF s = <<>> THEN 0
    ELSE 10 * DigitsValue(SubSeq(s, 1, Len(s) - 1)) + DigitValue(s[Len(s)])

AllDigits(s) == s # <<>> /\ \A i \in 1..Len(s) : IsDigit(s[i])

\* a text without its leading sign
Unsigned(s) == IF s # <<>> /\ Head(s) \in {"+", "-"} THEN Tail(s) ELSE s
IsNegative(s) == s # <<>> /\ Head(s) = "-"

(***************************************************************************)
(* float(text), for texts made of a sign, decimal digits and letters (no   *)
(* decimal point, exponent or underscore occurs in the inputs): surrounding*)
(* whitespace is ignored, a signed run of digits is its value, "nan" is    *)
(* the NaN, "inf"/"infinity" the infinities, anything else a ValueError.   *)
(***************************************************************************)
ParseFloat(text) ==
    LET t == Strip(text)
        body == Unsigned(t)
        word == Lower(body)
    IN  IF AllDigits(body)
        THEN [kind |-> "num",
              val |-> IF IsNegative(t) THEN 0 - DigitsValue(body) ELSE DigitsValue(body)]
        ELSE IF word = <<"n", "a", "n">>
        THEN [kind |-> "nan", val |-> 0]
        ELSE IF word \in { <<"i", "n", "f">>, <<"i", "n", "f", "i", "n", "i", "t", "y">> }
        THEN [kind |-> "inf", val |-> IF IsNegative(t) THEN -1 ELSE 1]
        ELSE [kind |-> "ValueError", val |-> 0]

\* price <= 0 on the parsed float (every comparison with NaN is False)
FloatLeqZero(f) ==
    CASE f.kind = "num" -> f.val <= 0
      [] f.kind = "inf" -> f.val < 0
      [] OTHER -> FALSE

\* validate_product_form: the error message, or NONE
validate_product_form(name, price, category, image) ==
    IF name = EMPTY \/ price = EMPTY \/ category = EMPTY \/ image = EMPTY
    THEN "All fields are required."
    ELSE IF ParseFloat(price).kind = "ValueError"
    THEN "Price must be a number."
    ELSE IF FloatLeqZero(ParseFloat(price))
    THEN "Price must be greater than zero."
    ELSE IF ~ \E ext \in ImageExtensions : EndsWith(Lower(image), ext)
    THEN "Invalid image format."
    ELSE NONE

(***************************************************************************)
(* The value SQLite stores when a text is bound to the REAL column         *)
(* products.price: a well-formed numeric literal becomes that number, any  *)
(* other text is kept as text.                                             *)
(***************************************************************************)
RealAffinity(text) ==
    IF AllDigits(Unsigned(Strip(text)))
    THEN [kind |-> "real", num |-> ParseFloat(text).val, text |-> EMPTY]
    ELSE [kind |-> "text", num |-> 0, text |-> text]

(***************************************************************************)
(* Input domains.                                                          *)
(***************************************************************************)
\* values of secrets.token_hex(16)
Tokens == {"t1", "t2"}
\* the csrf_token form field: absent, empty, or some token
FormTokens == {NONE, ""} \cup Tokens
\* salts drawn by generate_password_hash
Salts == {"s1", "s2"}
\* <product_name> URL segments
CartNames == {S_Bat, S_Mat}
\* carts stored by the older, list-based version of the application
LegacyCarts == { <<>>, <<S_Bat>>, <<S_Mat, S_Bat>>, <<S_Bat, S_Bat, S_Mat>> }
\* username and password form fields
Usernames == {EMPTY, S_a, S_a_padded, S_b}
Passwords == {EMPTY, S_p, S_p_padded, S_q}
\* the accounts registered while the store is administered
RegisterUsernames == {EMPTY, S_a, S_a_padded}
RegisterPasswords == {EMPTY, S_p, S_p_padded}
RegisterSalts == {"s1"}
\* <int:product_id> URL segments
ProductIds == 1..MaxProductId

Form(name, price, category, image) ==
    [name |-> name, price |-> price, category |-> category, image |-> image]

\* product forms posted to /admin/add and /admin/update/<id>
ProductForms ==
    { Form(S_Bat, S_499, S_Outdoor, S_bat_jpeg),
      Form(S_Mat, S_10, S_Fitness, S_m_PNG),
      Form(S_Bat, S_10, S_Outdoor, EMPTY),
      Form(S_Ball, S_0, S_Outdoor, S_b_png),
      Form(S_Ball, S_neg5, S_Outdoor, S_b_png),
      Form(S_Ball, S_abc, S_Outdoor, S_b_png),
      Form(S_Ball, S_10, S_Outdoor, S_b_gif),
      Form(S_Blank, S_10, S_Outdoor, S_b_png),
      Form(S_Bat, S_abc, EMPTY, EMPTY) }

(***************************************************************************)
(* Session, responses, password hashes.                                    *)
(***************************************************************************)
AbsentCart == [kind |-> "absent", items |-> <<>>]
ListCart(l) == [kind |-> "list", items |-> l]
DictCart(d) == [kind |-> "dict", items |-> d]
EmptyDict == [n \in {} |-> 0]

\* a session without any key: a new one, or one after session.clear()
EmptySession == [admin_logged_in |-> FALSE, csrf_token |-> NONE, cart |-> AbsentCart]

Redirect(op, target, flash) ==
    [op |-> op, kind |-> "redirect", target |-> target, flash |-> flash, total |-> 0]
Render(op, template) ==
    [op |-> op, kind |-> "render", target |-> template, flash |-> NONE, total |-> 0]
\* an exception that leaves the handler: Flask answers 500
ServerError(op, exception) ==
    [op |-> op, kind |-> "error", target |-> exception, flash |-> NONE, total |-> 0]

\* generate_password_hash: the salt and the digest of salt and password
hash_password(password, salt) == [salt |-> salt, digest |-> <<salt, password>>]
\* faulty variant of verify_password: any non-empty password verifies
verify_password_nonempty(password, password_hash) == password # EMPTY

\* check_password_hash
verify_password(password, password_hash) ==
    password_hash.digest = <<password_hash.salt, password>>

\* faulty variant of verify_csrf: the tokens are compared without the two
\* truthiness tests, so a missing form token matches a session without token
verify_csrf_equal_only(session_token, form_token) == session_token = form_token

\* bool(session_token and form_token and session_token == form_token)
verify_csrf(session_token, form_token) ==
    /\ session_token \notin {NONE, ""}
    /\ form_token \notin {NONE, ""}
    /\ session_token = form_token

ZeroAdds == [n \in CartNames |-> 0]
IdleReq == [pc |-> "idle", username |-> EMPTY, password |-> EMPTY,
            outcome |-> Render("register", "register.html")]
ReqIds == {1, 2}

Init ==
    /\ products = {}
    /\ nextProductId = 1
    /\ users = {}
    /\ nextUserId = 1
    /\ \E c \in {AbsentCart} \cup {ListCart(l) : l \in LegacyCarts} :
          /\ session = [EmptySession EXCEPT !.cart = c]
          /\ fromEmpty = (c = AbsentCart)
    /\ response = Render("home", "index.html")
    /\ posted_token = NONE
    /\ adds = ZeroAdds
    /\ loginSinceLogout = FALSE
    /\ reqs = [r \in ReqIds |-> IdleReq]

dbVars == <<products, nextProductId, users, nextUserId>>
cartGhosts == <<adds, fromEmpty>>

(***************************************************************************)
(* Cart routes.                                                            *)
(***************************************************************************)
\* number of occurrences of item in a list
RECURSIVE Count(_, _)
Count(l, item) ==
    IF l = <<>> THEN 0
    ELSE (IF Head(l) = item THEN 1 ELSE 0) + Count(Tail(l), item)

\* the migration loop: new_cart[item] = new_cart.get(item, 0) + 1
MigrateList(l) == [n \in {l[i] : i \in 1..Len(l)} |-> Count(l, n)]

\* cart.get(name, 0)
DictGet(d, name) == IF name \in DOMAIN d THEN d[name] ELSE 0
\* cart[name] = qty
DictPut(d, name, qty) == [n \in DOMAIN d \cup {name} |-> IF n = name THEN qty ELSE d[n]]
\* faulty variant of DictDel: one unit is taken off, the entry goes at zero
DictDel_one_unit(d, name) ==
    IF name \in DOMAIN d /\ d[name] > 1
    THEN [d EXCEPT ![name] = @ - 1]
    ELSE [n \in DOMAIN d \ {name} |-> d[n]]

\* del cart[name]
DictDel(d, name) == [n \in DOMAIN d \ {name} |-> d[n]]

\* the dict add_to_cart works on: a list is migrated, a missing cart is {}
AddToCartDict(c) ==
    CASE c.kind = "list" -> MigrateList(c.items)
      [] c.kind = "absent" -> EmptyDict
      [] OTHER -> c.items

add_to_cart(product_name) ==
    LET d == AddToCartDict(session.cart)
        qty == DictGet(d, product_name) + 1
    IN  /\ qty <= MaxQty
        /\ session' = [session EXCEPT !.cart = DictCart(DictPut(d, product_name, qty))]
        /\ response' = Redirect("add_to_cart", "product_page", NONE)
        /\ adds' = IF fromEmpty THEN [adds EXCEPT ![product_name] = @ + 1] ELSE adds
        /\ posted_token' = NONE
        /\ UNCHANGED <<dbVars, fromEmpty, loginSinceLogout, reqs>>

\* product_name in cart, for a dict (its keys) and for a list (its items)
InCart(c, product_name) ==
    CASE c.kind = "list" -> \E i \in 1..Len(c.items) : c.items[i] = product_name
      [] c.kind = "absent" -> FALSE
      [] OTHER -> product_name \in DOMAIN c.items

remove_from_cart(product_name) ==
    LET c == session.cart
    IN  /\ IF c.kind = "list" /\ InCart(c, product_name)
           THEN \* del on a list with a str index
                /\ response' = ServerError("remove_from_cart", "TypeError")
                /\ session' = session
           ELSE /\ response' = Redirect("remove_from_cart", "cart", NONE)
                /\ session' = [session EXCEPT !.cart =
                       CASE c.kind = "absent" -> DictCart(EmptyDict)
                         [] c.kind = "list" -> c
                         [] OTHER -> DictCart(DictDel(c.items, product_name))]
        /\ adds' = [adds EXCEPT ![product_name] = 0]
        /\ posted_token' = NONE
        /\ UNCHANGED <<dbVars, fromEmpty, loginSinceLogout, reqs>>

\* the dict the cart view iterates over
ViewDict(c) ==
    CASE c.kind = "list" -> MigrateList(c.items)
      [] c.kind = "absent" -> EmptyDict
      [] OTHER -> c.items

\* cart_products: one line per cart entry and product row of that name
CartLines(d, rows) ==
    { [name |-> row.name, id |-> row.id, qty |-> d[row.name], price |-> row.price] :
        row \in {r \in rows : r.name \in DOMAIN d} }

Subtotal(line) == line.qty * line.price.num

RECURSIVE SumSubtotals(_)
SumSubtotals(lines) ==
    IF lines = {} THEN 0
    ELSE LET l == CHOOSE x \in lines : TRUE
         IN  Subtotal(l) + SumSubtotals(lines \ {l})

\* qty * price is a str when the stored price is text, and total += str raises
ViewRaises(lines) == \E l \in lines : l.price.kind = "text"

\* a list is migrated and stored before the loop, so the migrated cart is in
\* the session that Flask saves with the 500 response as well
cart ==
    LET c == session.cart
        d == ViewDict(c)
        lines == CartLines(d, products)
    IN  /\ session' = IF c.kind = "list" THEN [session EXCEPT !.cart = DictCart(d)]
                      ELSE session
        /\ response' = IF ViewRaises(lines) THEN ServerError("cart", "TypeError")
                       ELSE [Render("cart", "cart.html") EXCEPT !.total = SumSubtotals(lines)]
        /\ posted_token' = NONE
        /\ UNCHANGED <<dbVars, cartGhosts, loginSinceLogout, reqs>>

(***************************************************************************)
(* Admin routes.                                                           *)
(***************************************************************************)
\* the admin_required decorator lets the handler run
admin_required == session.admin_logged_in

\* generate_csrf_token, called while a template renders csrf_token()
generate_csrf_token(token) ==
    IF session.csrf_token = NONE THEN [session EXCEPT !.csrf_token = token] ELSE session

\* rendering admin.html: the add-product form carries csrf_token(), which
\* issues the session its token
admin_html(token) == generate_csrf_token(token)

\* GET /admin
admin ==
    /\ IF ~admin_required
       THEN /\ response' = Redirect("admin", "admin_login", NONE)
            /\ session' = session
       ELSE /\ response' = Render("admin", "admin.html")
            /\ \E token \in Tokens : session' = admin_html(token)
    /\ posted_token' = NONE
    /\ UNCHANGED <<dbVars, cartGhosts, loginSinceLogout, reqs>>

\* request.form.get(field, "").strip() for the four product fields
StripForm(form) ==
    Form(Strip(form.name), Strip(form.price), Strip(form.category), Strip(form.image))

Row(id, name, price, category, image) ==
    [id |-> id, name |-> name, price |-> RealAffinity(price),
     category |-> category, image |-> image]

\* INSERT INTO products (name, price, category, image)
InsertProduct(rows, id, f) == rows \cup {Row(id, f.name, f.price, f.category, f.image)}

\* UPDATE products SET name, price, category, image WHERE id
UpdateProduct(rows, id, f, image) ==
    { IF r.id = id THEN Row(id, f.name, f.price, f.category, image) ELSE r : r \in rows }

\* DELETE FROM products WHERE id
DeleteProduct(rows, id) == {r \in rows : r.id # id}

admin_add(form, form_token) ==
    LET f == StripForm(form)
        error == validate_product_form(f.name, f.price, f.category, f.image)
    IN  /\ IF ~admin_required
           THEN /\ response' = Redirect("admin_add", "admin_login", NONE)
                /\ UNCHANGED <<products, nextProductId>>
           ELSE IF ~verify_csrf(session.csrf_token, form_token)
           THEN /\ response' = Redirect("admin_add", "admin", "Invalid CSRF token")
                /\ UNCHANGED <<products, nextProductId>>
           ELSE IF error # NONE
           THEN /\ response' = Redirect("admin_add", "admin", error)
                /\ UNCHANGED <<products, nextProductId>>
           ELSE /\ nextProductId <= MaxProductId
                /\ products' = InsertProduct(products, nextProductId, f)
                /\ nextProductId' = nextProductId + 1
                /\ response' = Redirect("admin_add", "admin", "Product added successfully!")
        /\ posted_token' = form_token
        /\ UNCHANGED <<users, nextUserId, session, cartGhosts, loginSinceLogout, reqs>>

\* the handler reads no token: whatever the request carries is ignored
admin_delete(product_id, form_token) ==
    /\ IF ~admin_required
       THEN /\ response' = Redirect("admin_delete", "admin_login", NONE)
            /\ products' = products
       ELSE /\ products' = DeleteProduct(products, product_id)
            /\ response' = Redirect("admin_delete", "admin", "Product deleted")
    /\ posted_token' = form_token
    /\ UNCHANGED <<nextProductId, users, nextUserId, session, cartGhosts,
                   loginSinceLogout, reqs>>

\* the body calls admin_required() without its argument, which raises
admin_edit(product_id) ==
    /\ response' = IF ~admin_required
                   THEN Redirect("admin_edit", "admin_login", NONE)
                   ELSE ServerError("admin_edit", "TypeError")
    /\ posted_token' = NONE
    /\ UNCHANGED <<dbVars, session, cartGhosts, loginSinceLogout, reqs>>

\* the route has no admin_required decorator
admin_update(product_id, form, form_token) ==
    LET f == StripForm(form)
        error == IF f.image # EMPTY
                 THEN validate_product_form(f.name, f.price, f.category, f.image)
                 ELSE NONE
        stored == {r \in products : r.id = product_id}
    IN  /\ IF ~verify_csrf(session.csrf_token, form_token)
           THEN /\ response' = Redirect("admin_update", "admin", "Invalid CSRF token")
                /\ products' = products
           ELSE IF error # NONE
           THEN /\ response' = Redirect("admin_update", "admin", error)
                /\ products' = products
           ELSE IF f.image = EMPTY /\ stored = {}
           THEN \* cursor.fetchone() is None, and None["image"] raises
                /\ response' = ServerError("admin_update", "TypeError")
                /\ products' = products
           ELSE /\ products' = UpdateProduct(products, product_id, f,
                       IF f.image = EMPTY THEN (CHOOSE r \in stored : TRUE).image
                       ELSE f.image)
                /\ response' = Redirect("admin_update", "admin", "Product updated successfully!")
        /\ posted_token' = form_token
        /\ UNCHANGED <<nextProductId, users, nextUserId, session, cartGhosts,
                       loginSinceLogout, reqs>>

(***************************************************************************)
(* Auth routes.                                                            *)
(***************************************************************************)
\* SELECT ... FROM users WHERE username = ?
UsersNamed(rows, username) == {r \in rows : r.username = username}

\* POST /admin/login
admin_login(username_field, password_field) ==
    LET username == Strip(username_field)
        password == Strip(password_field)
        found == UsersNamed(users, username)
    IN  /\ IF username = EMPTY \/ password = EMPTY
           THEN /\ response' = Redirect("admin_login", "admin_login",
                                        "Username and password are required")
                /\ UNCHANGED <<session, loginSinceLogout>>
           ELSE IF found = {} \/ ~verify_password(password,
                                     (CHOOSE r \in found : TRUE).password_hash)
           THEN /\ response' = Redirect("admin_login", "admin_login",
                                        "Invalid username or password")
                /\ UNCHANGED <<session, loginSinceLogout>>
           ELSE /\ session' = [session EXCEPT !.admin_logged_in = TRUE]
                /\ loginSinceLogout' = TRUE
                /\ response' = Redirect("admin_login", "admin", NONE)
        /\ posted_token' = NONE
        /\ UNCHANGED <<dbVars, cartGhosts, reqs>>

\* INSERT INTO users (username, password_hash)
InsertUser(rows, id, username, password_hash) ==
    rows \cup {[id |-> id, username |-> username, password_hash |-> password_hash]}

\* the UNIQUE constraint on users.username rejects the INSERT
UniqueViolation(rows, username) == UsersNamed(rows, username) # {}

\* POST /register, handled without another request in between
register(username_field, password_field, salt) ==
    LET username == Strip(username_field)
        password == Strip(password_field)
    IN  /\ IF username = EMPTY \/ password = EMPTY
           THEN /\ response' = Redirect("register", "register",
                                        "Username and password are required.")
                /\ UNCHANGED <<users, nextUserId>>
           ELSE IF UsersNamed(users, username) # {}
           THEN /\ response' = Redirect("register", "register", "Username already exists.")
                /\ UNCHANGED <<users, nextUserId>>
           ELSE /\ nextUserId <= MaxUserId
                /\ users' = InsertUser(users, nextUserId, username,
                                       hash_password(password, salt))
                /\ nextUserId' = nextUserId + 1
                /\ response' = Redirect("register", "admin_login",
                                        "Account created successfully. Please log in.")
        /\ posted_token' = NONE
        /\ UNCHANGED <<products, nextProductId, session, cartGhosts, loginSinceLogout, reqs>>

\* GET /admin/logout: session.clear()
admin_logout ==
    /\ session' = EmptySession
    /\ response' = Redirect("admin_logout", "home", NONE)
    /\ posted_token' = NONE
    /\ adds' = ZeroAdds
    /\ fromEmpty' = TRUE
    /\ loginSinceLogout' = FALSE
    /\ UNCHANGED <<dbVars, reqs>>

Next ==
    \/ \E n \in CartNames : add_to_cart(n)
    \/ \E n \in CartNames : remove_from_cart(n)
    \/ cart
    \/ admin
    \/ \E form \in ProductForms, t \in FormTokens : admin_add(form, t)
    \/ \E id \in ProductIds, t \in FormTokens : admin_delete(id, t)
    \/ \E id \in ProductIds : admin_edit(id)
    \/ \E id \in ProductIds, form \in ProductForms, t \in FormTokens : admin_update(id, form, t)
    \/ \E u \in Usernames, p \in Passwords : admin_login(u, p)
    \/ \E u \in RegisterUsernames, p \in RegisterPasswords, s \in RegisterSalts : register(u, p, s)
    \/ admin_logout

Spec == Init /\ [][Next]_vars

(***************************************************************************)
(* Registration under concurrent requests: each request runs register on   *)
(* its own connection, and the SELECT and the INSERT are two statements    *)
(* between which another request's statements can run.                     *)
(***************************************************************************)
sessionVars == <<session, response, posted_token, cartGhosts, loginSinceLogout>>

\* up to the SELECT and the branches that return before the INSERT
register_select(r, username_field, password_field) ==
    LET username == Strip(username_field)
        password == Strip(password_field)
    IN  /\ reqs[r].pc \in {"idle", "done"}
        /\ reqs' = [reqs EXCEPT ![r] =
              IF username = EMPTY \/ password = EMPTY
              THEN [pc |-> "done", username |-> username, password |-> password,
                    outcome |-> Redirect("register", "register",
                                         "Username and password are required.")]
              ELSE IF UsersNamed(users, username) # {}
              THEN [pc |-> "done", username |-> username, password |-> password,
                    outcome |-> Redirect("register", "register", "Username already exists.")]
              ELSE [pc |-> "insert", username |-> username, password |-> password,
                    outcome |-> @.outcome]]
        /\ UNCHANGED <<dbVars, sessionVars>>

\* the INSERT, the commit and the redirect; no except clause surrounds the INSERT
register_insert(r, salt) ==
    /\ reqs[r].pc = "insert"
    /\ IF UniqueViolation(users, reqs[r].username)
       THEN /\ reqs' = [reqs EXCEPT ![r].pc = "done",
                                    ![r].outcome = ServerError("register", "IntegrityError")]
            /\ UNCHANGED <<users, nextUserId>>
       ELSE /\ nextUserId <= MaxUserId
            /\ users' = InsertUser(users, nextUserId, reqs[r].username,
                                   hash_password(reqs[r].password, salt))
            /\ nextUserId' = nextUserId + 1
            /\ reqs' = [reqs EXCEPT ![r].pc = "done",
                                    ![r].outcome = Redirect("register", "admin_login",
                                        "Account created successfully. Please log in.")]
    /\ UNCHANGED <<products, nextProductId, sessionVars>>

NextReg ==
    \/ \E r \in ReqIds, u \in Usernames, p \in Passwords : register_select(r, u, p)
    \/ \E r \in ReqIds, s \in Salts : register_insert(r, s)

SpecReg == Init /\ [][NextReg]_vars

(***************************************************************************)
(* Properties.                                                             *)
(***************************************************************************)
\* the request's token is missing, the session has none, or the two differ
BadToken(form_token) ==
    form_token = NONE \/ session.csrf_token = NONE \/ form_token # session.csrf_token

\* the quantity a stored cart holds for a name (0: no entry)
QtyOf(c, name) ==
    IF c.kind = "dict" /\ name \in DOMAIN c.items THEN c.items[name] ELSE 0

AdminMutators == {"admin_add", "admin_update", "admin_delete"}

\* C1: a request to add, update or delete a product made in a session without
\* the admin flag changes no product row and is redirected to the login page.
C1_MutatorsRequireAdmin ==
    [][(~session.admin_logged_in /\ response'.op \in AdminMutators)
         => /\ products' = products
            /\ response'.kind = "redirect"
            /\ response'.target = "admin_login"]_vars

\* C2 as stated: every POST to /admin/add or /admin/update/<id> with a bad token
\* leaves the products unchanged and queues the invalid-CSRF-token message.
C2_BadTokenAlwaysCsrfMessage ==
    [][(response'.op \in {"admin_add", "admin_update"} /\ BadToken(posted_token'))
         => /\ products' = products
            /\ response'.flash = "Invalid CSRF token"]_vars

\* C2: a POST to /admin/update/<id>, or to /admin/add in a session with the admin
\* flag, that carries a bad token leaves the products unchanged and queues the
\* invalid-CSRF-token message whatever the form holds; a POST to /admin/add in a
\* session without the flag is redirected to login, with no message and no change.
C2_BadTokenRejectedFirst ==
    [][/\ (BadToken(posted_token')
           /\ \/ response'.op = "admin_add" /\ session.admin_logged_in
              \/ response'.op = "admin_update")
            => /\ products' = products
               /\ response'.kind = "redirect" /\ response'.target = "admin"
               /\ response'.flash = "Invalid CSRF token"
       /\ (response'.op = "admin_add" /\ ~session.admin_logged_in)
            => /\ products' = products
               /\ response'.kind = "redirect" /\ response'.target = "admin_login"
               /\ response'.flash = NONE]_vars

\* C2 witness: an update with a bad token was rejected while a product is stored
\* and the session has been issued a token.
C2_Witness ==
    /\ response = Redirect("admin_update", "admin", "Invalid CSRF token")
    /\ posted_token \in Tokens /\ posted_token # session.csrf_token
    /\ products # {}
    /\ session.csrf_token # NONE

\* C3: a delete request that carries no token equal to the session's removes
\* no product row.
C3_DeleteRequiresToken ==
    [][(response'.op = "admin_delete" /\ BadToken(posted_token'))
         => products' = products]_vars

ValidImage(image) ==
    /\ image # EMPTY
    /\ \E ext \in ImageExtensions : EndsWith(Lower(image), ext)

\* C4: every stored product has a numeric price > 0, a non-empty name and
\* category, and a non-empty image with an accepted extension.
C4_ProductInvariant ==
    \A r \in products :
       /\ r.price.kind = "real" /\ r.price.num > 0
       /\ r.name # EMPTY
       /\ r.category # EMPTY
       /\ ValidImage(r.image)

CartOps == {"add_to_cart", "remove_from_cart", "cart"}

\* C5: add, remove and view complete without error on every stored cart form,
\* and a legacy list is left stored as the mapping of its names to their counts
\* (less the removed name, plus the added unit).
C5_CartOpsNeverFail ==
    [][response'.op \in CartOps
         => /\ response'.kind # "error"
            /\ session.cart.kind = "list"
                 => /\ session'.cart.kind = "dict"
                    /\ \A n \in CartNames :
                         \/ QtyOf(session'.cart, n) = Count(session.cart.items, n)
                         \/ response'.op = "add_to_cart"
                            /\ QtyOf(session'.cart, n) = Count(session.cart.items, n) + 1
                         \/ response'.op = "remove_from_cart"
                            /\ QtyOf(session'.cart, n) = 0]_vars

\* C6, in every state: in a cart that started empty, a name has an entry exactly
\* when an add of it happened since its last remove, with the number of those adds
\* as quantity.
CartLaw ==
    fromEmpty =>
       /\ session.cart.kind # "list"
       /\ \A n \in CartNames : QtyOf(session.cart, n) = adds[n]
       /\ session.cart.kind = "dict" => \A n \in DOMAIN session.cart.items :
                                           session.cart.items[n] >= 1

\* C6, in every step: remove(name) raises nothing and leaves no entry for name,
\* add(name) adds one unit, and neither touches another name's entry.
CartStepLaw ==
    \A n \in CartNames :
       /\ (fromEmpty /\ remove_from_cart(n))
            => /\ response'.kind = "redirect"
               /\ QtyOf(session'.cart, n) = 0
               /\ session'.cart.kind = "dict" /\ n \notin DOMAIN session'.cart.items
               /\ \A m \in CartNames \ {n} :
                     QtyOf(session'.cart, m) = QtyOf(session.cart, m)
       /\ (fromEmpty /\ add_to_cart(n))
            => /\ QtyOf(session'.cart, n) = QtyOf(session.cart, n) + 1
               /\ \A m \in CartNames \ {n} :
                     QtyOf(session'.cart, m) = QtyOf(session.cart, m)

\* C6: the cart add/remove law, for carts that started empty.
C6_CartAddRemoveLaw == []CartLaw /\ [][CartStepLaw]_vars

\* C6 witness: a remove has just emptied one name's entry after adds, while the
\* other name keeps its two units.
C6_Witness ==
    /\ fromEmpty
    /\ response.op = "remove_from_cart"
    /\ session.cart = DictCart([n \in {S_Mat} |-> 2])
    /\ adds[S_Bat] = 0

\* the products named name
Named(rows, name) == {r \in rows : r.name = name}

\* sum over the cart entries with exactly one product of qty * its price
RECURSIVE ExpectedTotal(_, _, _)
ExpectedTotal(c, rows, names) ==
    IF names = {} THEN 0
    ELSE LET n == CHOOSE x \in names : TRUE
             line == IF Cardinality(Named(rows, n)) = 1
                     THEN QtyOf(c, n) * (CHOOSE r \in Named(rows, n) : TRUE).price.num
                     ELSE 0
         IN  line + ExpectedTotal(c, rows, names \ {n})

\* C7: the cart view renders at most one line per cart entry, skips the entries
\* without a product, totals qty * current price over the others, and changes
\* neither the products nor the quantities in the cart.
C7_CartTotal ==
    [][response'.op = "cart"
         => /\ response'.kind = "render"
            /\ \A n \in CartNames :
                  Cardinality({l \in CartLines(ViewDict(session.cart), products) :
                                  l.name = n}) <= 1
            /\ response'.total = ExpectedTotal(session'.cart, products, CartNames)
            /\ products' = products
            /\ \A n \in CartNames :
                  QtyOf(session'.cart, n) = QtyOf(DictCart(ViewDict(session.cart)), n)]_vars

\* C8: no username has two accounts, and no register request ends in an
\* unhandled failure.
C8_RegistrationUniqueness ==
    /\ \A r1, r2 \in users : r1.username = r2.username => r1 = r2
    /\ \A r \in ReqIds : reqs[r].outcome.kind # "error"

LoginSucceeded == response' = Redirect("admin_login", "admin", NONE)
LoginFailed == response'.op = "admin_login" /\ response' # Redirect("admin_login", "admin", NONE)

\* C9 as stated: the session is authenticated exactly when a login succeeded with
\* no logout since; a login succeeds only when an account with exactly the supplied
\* username is stored and the supplied password verifies against its hash; a
\* failed login leaves the session unchanged and names no reason beyond a blank
\* field; logout empties the session.
C9_LoginExactCredentials ==
    /\ [](session.admin_logged_in <=> loginSinceLogout)
    /\ [][/\ LoginSucceeded =>
               \A u \in Usernames, p \in Passwords :
                  admin_login(u, p)
                    => \E r \in users :
                          /\ r.username = u
                          /\ r.password_hash = hash_password(p, r.password_hash.salt)
          /\ LoginFailed => session' = session
          /\ LoginFailed => response'.flash \in {"Invalid username or password",
                                                "Username and password are required"}
          /\ response'.op = "admin_logout" => session' = EmptySession]_vars

\* C9: as C9_LoginExactCredentials, the username and the password being compared
\* after surrounding whitespace is stripped from both.
C9_LoginStrippedCredentials ==
    /\ [](session.admin_logged_in <=> loginSinceLogout)
    /\ [][/\ LoginSucceeded =>
               \A u \in Usernames, p \in Passwords :
                  admin_login(u, p)
                    => \E r \in users :
                          /\ r.username = Strip(u)
                          /\ r.password_hash = hash_password(Strip(p), r.password_hash.salt)
          /\ LoginFailed => session' = session
          /\ LoginFailed => response'.flash \in {"Invalid username or password",
                                                "Username and password are required"}
          /\ response'.op = "admin_logout" => session' = EmptySession]_vars

\* C9 witness: a login has just succeeded in a session that holds a cart.
C9_Witness ==
    /\ response = Redirect("admin_login", "admin", NONE)
    /\ session.admin_logged_in
    /\ session.cart.kind = "dict"
    /\ users # {}

\* C10: GET /admin/edit/<id> renders the edit form in a session with the admin
\* flag, redirects to login without it, and leaves the products unchanged.
C10_EditFormReachable ==
    [][response'.op = "admin_edit"
         => /\ products' = products
            /\ response' = IF session.admin_logged_in
                           THEN Render("admin_edit", "admin_edit.html")
                           ELSE Redirect("admin_edit", "admin_login", NONE)]_vars

====
